---- MODULE Spec2Model ----
(***************************************************************************)
(* Model of the NetDiscordBot staff clock (cogs/shift_tracking.py over the *)
(* shifts table of database.py) and of the /shift announcement follow-up   *)
(* timer (cogs/net_commands.py), of the presence registry that the clock   *)
(* consults, and of the Bloxlink lookup (presence_state.py); of the clock   *)
(* periods and adjustments of /clockadjust and /clockreset, of the LOA     *)
(* approval flow (cogs/loa.py) and of the moderation confirm cards         *)
(* (cogs/moderation.py).                                                   *)
(*                                                                         *)
(* Time is counted in whole seconds.  datetime.now(timezone.utc) is read   *)
(* from the variable now, which the environment only moves forward; two    *)
(* commands may read the same value.                                       *)
(***************************************************************************)
EXTENDS Integers, Sequences, FiniteSets, TLC

\* ------------------------------------------------------------------ bounds
NumUsers == 2
MaxTime == 1
MaxShifts == 2
NumMsgs == 1
MaxMarks == 4
NumIds == 2
MaxIds == 2
MaxAdjust == 1
MaxHours == 2
MaxLoas == 1
NumPresses == 2
MaxCards == 2

\* ------------------------------------------------------- program constants
\* The one guild the commands are registered for (abstracted to a small id).
GUILD_ID == 1
\* SQL NULL in shifts.end_time (the column is nullable).
NULL == -1
\* datetime(1970, 1, 1): the period start of a guild that was never reset.
EPOCH == 0

Users == 1..NumUsers
\* The member whose period total is followed.
Members == {NumUsers}
Times == 0..MaxTime
Msgs == 1..NumMsgs
\* Every message id in use, and two announcements of them for what concerns
\* two shifts side by side.
AllMsgs == 1..(NumMsgs + 1)
PairMsgs == {NumMsgs, NumMsgs + 1}
\* The announcement whose reactions are followed.
ReactMsgs == {NumMsgs}

VARIABLES
    shifts,       \* the shifts table: a sequence of rows, row i has id i
    now,          \* the wall clock, in seconds
    last,         \* the most recent clock operation and its result
    SHIFT_TRACK,  \* message id -> info dict, or NoInfo when untracked
    task,         \* message id -> state of its follow-up asyncio task
    handler,      \* message id -> position of the /shift handler that posts it
    cancelling,   \* message id -> position of a running /cancelshift handler
    posts,        \* message id -> number of "Shift Happening" posts made
    mentioned,    \* message id -> reactors mentioned by the follow-up
    stopped,      \* message id -> follow-up state when /shiftstop last ended it
    trace,        \* message id -> what its follow-up task and /cancelshift did
    presence,     \* user id -> the presence entry of the user
    marks,        \* the mark_present / mark_absent calls made so far, in order
    _session,     \* the shared aiohttp session of presence_state
    lookup,       \* the most recent Bloxlink lookup and its result
    reacted,      \* message id -> users whose :net: reaction event arrived
                  \* after the announcement was posted and before it fired
    reset_at,     \* clock_periods.reset_at of the guild, NULL while no row
    clock_adjustments, \* the clock_adjustments table, in insertion order
    adjusted,     \* the most recent /clockadjust and what it reported
    loas,         \* the loas table: a sequence of rows, row i has id i
    loa_press,    \* press id -> an Approve/Deny press and how far it got
    loa_views,    \* the LOAs with a /loafeed message carrying live buttons
    loa_panel,    \* the LOAs offered by the open /loaadmin panel
    loa_last,     \* the most recent _decide_loa / _end_loa_early and its result
    moderations,  \* the moderations table: card of each recorded case
    card,         \* the pending moderation card and its message
    mod_press     \* press id -> a Confirm/Cancel press and how far it got

clockVars == <<shifts, last>>
trackVars == <<SHIFT_TRACK, task, handler, cancelling, posts, mentioned,
               stopped, trace, reacted>>
sideVars == <<presence, marks, _session, lookup>>
periodVars == <<reset_at, clock_adjustments, adjusted>>
loaVars == <<loas, loa_press, loa_views, loa_panel, loa_last>>
modVars == <<moderations, card, mod_press>>
deskVars == <<periodVars, loaVars, modVars>>
vars == <<shifts, now, last, SHIFT_TRACK, task, handler,
          cancelling, posts, mentioned, stopped, trace,
          presence, marks, _session, lookup, reacted,
          reset_at, clock_adjustments, adjusted, loas, loa_press,
          loa_views, loa_panel, loa_last,
          moderations, card, mod_press>>

\* ------------------------------------------------------------ staff clock

Min(S) == CHOOSE x \in S : \A y \in S : x <= y

Max0(a) == IF a > 0 THEN a ELSE 0

\* _format_duration: "1h 2m 3s" as a sequence of <<number, unit>> parts.
_format_duration(seconds) ==
    LET total   == Max0(seconds)
        sec     == total % 60
        minutes == (total \div 60) % 60
        hours   == (total \div 60) \div 60
        h == IF hours # 0 THEN <<<<hours, "h">>>> ELSE <<>>
        m == IF minutes # 0 THEN <<<<minutes, "m">>>> ELSE <<>>
        s == IF sec # 0 \/ (h \o m) = <<>> THEN <<<<sec, "s">>>> ELSE <<>>
    IN  h \o m \o s

\* A plausible slip: the lookup tests "end_time IS NOT NULL".
GetOpenShiftClosedRows(s, guild_id, user_id) ==
    LET rows == {i \in 1..Len(s) : /\ s[i].user_id = user_id
                                   /\ s[i].guild_id = guild_id
                                   /\ s[i].end_time # NULL}
    IN  IF rows = {} THEN 0 ELSE Min(rows)

\* _get_open_shift: id of the user's row with end_time IS NULL, 0 for None.
_get_open_shift(s, guild_id, user_id) ==
    LET open == {i \in 1..Len(s) : /\ s[i].user_id = user_id
                                   /\ s[i].guild_id = guild_id
                                   /\ s[i].end_time = NULL}
    IN  IF open = {} THEN 0 ELSE Min(open)

\* A plausible slip: the insert is not guarded by the open-shift lookup.
StartShiftUnguarded(s, t, guild_id, user_id) ==
    [ok |-> TRUE, msg |-> "Started",
     shifts |-> Append(s, [id |-> Len(s) + 1, user_id |-> user_id,
                           guild_id |-> guild_id, start_time |-> t,
                           end_time |-> NULL])]

\* A plausible slip: the row is inserted before the open-shift check fails.
StartShiftInsertsFirst(s, t, guild_id, user_id) ==
    [ok |-> _get_open_shift(s, guild_id, user_id) = 0,
     msg |-> IF _get_open_shift(s, guild_id, user_id) = 0
             THEN "Started" ELSE "AlreadyActive",
     shifts |-> Append(s, [id |-> Len(s) + 1, user_id |-> user_id,
                           guild_id |-> guild_id, start_time |-> t,
                           end_time |-> NULL])]

\* _start_shift at time t: (ok, msg) and the table it leaves.
_start_shift(s, t, guild_id, user_id) ==
    IF _get_open_shift(s, guild_id, user_id) # 0
    THEN [ok |-> FALSE, msg |-> "AlreadyActive", shifts |-> s]
    ELSE [ok |-> TRUE, msg |-> "Started",
          shifts |-> Append(s, [id |-> Len(s) + 1, user_id |-> user_id,
                                guild_id |-> guild_id, start_time |-> t,
                                end_time |-> NULL])]

\* A plausible slip: the UPDATE is reported as a success even without a row.
EndShiftAlwaysOk(s, t, guild_id, user_id) ==
    LET id == _get_open_shift(s, guild_id, user_id)
    IN  IF id = 0
        THEN [ok |-> TRUE, duration |-> _format_duration(0),
              shifts |-> IF Len(s) = 0 THEN s
                         ELSE [s EXCEPT ![Len(s)].end_time = t]]
        ELSE [ok |-> TRUE,
              duration |-> _format_duration(t - s[id].start_time),
              shifts |-> [s EXCEPT ![id].end_time = t]]

\* A plausible slip: the duration is computed but the UPDATE is lost.
EndShiftNoUpdate(s, t, guild_id, user_id) ==
    LET id == _get_open_shift(s, guild_id, user_id)
    IN  IF id = 0
        THEN [ok |-> FALSE, duration |-> <<>>, shifts |-> s]
        ELSE [ok |-> TRUE,
              duration |-> _format_duration(t - s[id].start_time),
              shifts |-> s]

\* A plausible slip: the UPDATE names the user, not the row (WHERE user_id
\* = ? in place of WHERE id = ?).
EndShiftUpdatesByUser(s, t, guild_id, user_id) ==
    LET id == _get_open_shift(s, guild_id, user_id)
    IN  IF id = 0
        THEN [ok |-> FALSE, duration |-> <<>>, shifts |-> s]
        ELSE [ok |-> TRUE,
              duration |-> _format_duration(t - s[id].start_time),
              shifts |-> [i \in 1..Len(s) |->
                             IF s[i].user_id = user_id
                             THEN [s[i] EXCEPT !.end_time = t] ELSE s[i]]]

\* _end_shift at time t: (ok, duration_str or None) and the table it leaves.
_end_shift(s, t, guild_id, user_id) ==
    LET id == _get_open_shift(s, guild_id, user_id)
    IN  IF id = 0
        THEN [ok |-> FALSE, duration |-> <<>>, shifts |-> s]
        ELSE [ok |-> TRUE,
              duration |-> _format_duration(t - s[id].start_time),
              shifts |-> [s EXCEPT ![id].end_time = t]]

\* A plausible slip: the admin variant closes every open row of the guild.
ForceEndClosesAll(s, t, guild_id, user_id) ==
    LET r == _end_shift(s, t, guild_id, user_id)
    IN  [r EXCEPT !.shifts = [i \in 1..Len(s) |->
            IF s[i].guild_id = guild_id /\ s[i].end_time = NULL
            THEN [s[i] EXCEPT !.end_time = t] ELSE s[i]]]

\* _force_end_shift: the admin version, which delegates to _end_shift.
_force_end_shift(s, t, guild_id, user_id) == _end_shift(s, t, guild_id, user_id)

\* Does the table hold a row of the user with no end_time?
HasOpenRow(s, user_id) ==
    \E i \in 1..Len(s) : s[i].user_id = user_id /\ s[i].end_time = NULL

\* How an operation on user_id follows the operation recorded before it:
\* right after a start of the same user that succeeded, right after an
\* auto-end of the same user that returned True, or neither.
Follows(user_id) ==
    IF last.user_id = user_id /\ last.ok
       /\ last.op \in {"startclock", "start_button"}
    THEN "start"
    ELSE IF last.user_id = user_id /\ last.op = "auto_end_for_inactivity"
            /\ last.returned = "True"
    THEN "auto_end"
    ELSE "other"

\* The record kept of one clock operation: the handler, the user whose clock
\* it acts on, what the handler found (an open row of the user, the answer
\* of is_in_game), the (ok, ...) pair of the helper it called, what the
\* handler itself returned to its caller, whether it changed the table
\* (after is the table it leaves), and what it follows.
Op(op, user_id, in_game, ok, outcome, duration, returned, after) ==
    [op |-> op, user_id |-> user_id, had_open |-> HasOpenRow(shifts, user_id),
     in_game |-> in_game, ok |-> ok, outcome |-> outcome,
     duration |-> duration, returned |-> returned,
     changed |-> after # shifts, follows |-> Follows(user_id)]

NoOp == [op |-> "none", user_id |-> 0, had_open |-> FALSE,
         in_game |-> FALSE, ok |-> FALSE, outcome |-> "none",
         duration |-> <<>>, returned |-> "None", changed |-> FALSE,
         follows |-> "other"]

Record(o) == last' = o

\* /startclock by user_id; sup is _is_supervisor_plus(member) and in_game
\* the answer of is_in_game(member.id).
startclock(user_id, sup, in_game) ==
    LET r == _start_shift(shifts, now, GUILD_ID, user_id)
    IN  /\ sup /\ in_game => Len(r.shifts) <= MaxShifts
        /\ ~sup => ~in_game
        /\ IF ~sup
           THEN /\ Record(Op("startclock", user_id, in_game, FALSE, "NotPermitted",
                             <<>>, "None", shifts))
                /\ UNCHANGED shifts
           ELSE IF ~in_game
           THEN /\ Record(Op("startclock", user_id, in_game, FALSE, "NotPresent",
                             <<>>, "None", shifts))
                /\ UNCHANGED shifts
           ELSE /\ shifts' = r.shifts
                /\ Record(Op("startclock", user_id, in_game, r.ok, r.msg, <<>>, "None",
                             r.shifts))
        /\ UNCHANGED <<now, trackVars, sideVars, deskVars>>

\* The Start button of the /clockmanage panel of member_id; owner is the
\* result of _check_owner for the member who pressed it.  in_game is what
\* is_in_game(member_id) would answer at that moment: the button never asks.
start_button(member_id, owner, in_game) ==
    LET r == _start_shift(shifts, now, GUILD_ID, member_id)
    IN  /\ owner => Len(r.shifts) <= MaxShifts
        /\ ~owner => ~in_game
        /\ IF ~owner
           THEN /\ Record(Op("start_button", member_id, in_game, FALSE, "NotOwner",
                             <<>>, "None", shifts))
                /\ UNCHANGED shifts
           ELSE /\ shifts' = r.shifts
                /\ Record(Op("start_button", member_id, in_game, r.ok, r.msg, <<>>,
                             "None", r.shifts))
        /\ UNCHANGED <<now, trackVars, sideVars, deskVars>>

\* /endclock by user_id.
endclock(user_id, sup) ==
    LET r == _end_shift(shifts, now, GUILD_ID, user_id)
    IN  /\ IF ~sup
           THEN /\ Record(Op("endclock", user_id, FALSE, FALSE, "NotPermitted",
                             <<>>, "None", shifts))
                /\ UNCHANGED shifts
           ELSE /\ shifts' = r.shifts
                /\ Record(Op("endclock", user_id, FALSE, r.ok,
                             IF r.ok THEN "Ended" ELSE "NoActiveShift",
                             r.duration, "None", r.shifts))
        /\ UNCHANGED <<now, trackVars, sideVars, deskVars>>

\* The End button of the /clockmanage panel of member_id.
end_button(member_id, owner) ==
    LET r == _end_shift(shifts, now, GUILD_ID, member_id)
    IN  /\ IF ~owner
           THEN /\ Record(Op("end_button", member_id, FALSE, FALSE, "NotOwner",
                             <<>>, "None", shifts))
                /\ UNCHANGED shifts
           ELSE /\ shifts' = r.shifts
                /\ Record(Op("end_button", member_id, FALSE, r.ok,
                             IF r.ok THEN "Ended" ELSE "NoActiveShift",
                             r.duration, "None", r.shifts))
        /\ UNCHANGED <<now, trackVars, sideVars, deskVars>>

\* The select menu of the /clockadmin panel: force-end user_id's clock.
on_select(user_id) ==
    LET r == _force_end_shift(shifts, now, GUILD_ID, user_id)
    IN  /\ shifts' = r.shifts
        /\ Record(Op("on_select", user_id, FALSE, r.ok,
                     IF r.ok THEN "Ended" ELSE "NoActiveShift",
                     r.duration, "None", r.shifts))
        /\ UNCHANGED <<now, trackVars, sideVars, deskVars>>

\* What member.send can do: there is no member to message, the message is
\* delivered, Discord refuses it (DMs disabled), or the request fails
\* otherwise (any other discord.HTTPException).
DMOutcomes == {"NoMember", "Sent", "Forbidden", "HTTPException"}

\* auto_end_for_inactivity(user_id, reason); guild_found is whether
\* bot.get_guild(GUILD_ID) finds the guild, dm what the direct message does.
auto_end_for_inactivity(user_id, guild_found, dm) ==
    LET r == _end_shift(shifts, now, GUILD_ID, user_id)
    IN  /\ ~(guild_found /\ r.ok) => dm = "NoMember"
        /\ IF ~guild_found
           THEN /\ Record(Op("auto_end_for_inactivity", user_id, FALSE, FALSE,
                             "GuildNotFound", <<>>, "False", shifts))
                /\ UNCHANGED shifts
           ELSE IF ~r.ok
           THEN /\ Record(Op("auto_end_for_inactivity", user_id, FALSE, FALSE,
                             "NoActiveShift", <<>>, "False", shifts))
                /\ UNCHANGED shifts
           ELSE /\ shifts' = r.shifts
                /\ Record(Op("auto_end_for_inactivity", user_id, FALSE, TRUE, dm,
                             r.duration,
                             IF dm = "HTTPException" THEN "raise" ELSE "True",
                             r.shifts))
        /\ UNCHANGED <<now, trackVars, sideVars, deskVars>>

\* The wall clock advances.
Tick ==
    /\ now < MaxTime
    /\ now' = now + 1
    /\ UNCHANGED <<clockVars, trackVars, sideVars, deskVars>>

\* ------------------------------------------------- /shift follow-up timer

NoInfo == [tracked |-> FALSE, when |-> 0, reactors |-> {}, canceled |-> FALSE]

\* What is remembered of one follow-up: checked_at is the time at which the
\* task tested info.get("canceled") (NULL while it never has), entered what
\* its first step did ("return", "sleeping" or "fetching"), and cancel the
\* state in which the first /cancelshift found the task ("no" while there
\* was none).
NoTrace == [checked_at |-> NULL, entered |-> "none", cancel |-> "no"]

TrackInit ==
    /\ SHIFT_TRACK = [m \in AllMsgs |-> NoInfo]
    /\ task = [m \in AllMsgs |-> "none"]
    /\ handler = [m \in AllMsgs |-> [pc |-> "idle", when |-> 0]]
    /\ cancelling = [m \in AllMsgs |-> "idle"]
    /\ posts = [m \in AllMsgs |-> 0]
    /\ mentioned = [m \in AllMsgs |-> {}]
    /\ stopped = [m \in AllMsgs |-> "no"]
    /\ trace = [m \in AllMsgs |-> NoTrace]
    /\ reacted = [m \in AllMsgs |-> {}]

\* Task states in which the follow-up coroutine has finished.
Finished == {"done", "cancelled", "failed"}

\* /shift, up to posted_msg = await shifts_channel.send(...): the
\* announcement m exists, and `when` (the parsed time, which may lie in the
\* past) is held by the handler.  A time that does not parse or a missing
\* shifts channel ends the handler before anything is posted or stored.
\* Message ids grow with time: no announcement with a larger id exists yet.
shift_post(m, when) ==
    /\ handler[m].pc = "idle"
    /\ \A k \in AllMsgs : k > m => handler[k].pc = "idle"
    /\ handler' = [handler EXCEPT ![m] = [pc |-> "posted", when |-> when]]
    /\ UNCHANGED <<now, clockVars, sideVars, deskVars, reacted,
                   SHIFT_TRACK, task, cancelling, posts,
                   mentioned, stopped, trace>>

\* /shift, after await posted_msg.add_reaction(...): the tracker entry is
\* stored and the follow-up task created, with no suspension in between.
shift_track(m) ==
    /\ handler[m].pc = "posted"
    /\ SHIFT_TRACK' = [SHIFT_TRACK EXCEPT ![m] =
           [tracked |-> TRUE, when |-> handler[m].when, reactors |-> {},
            canceled |-> FALSE]]
    /\ task' = [task EXCEPT ![m] = "created"]
    /\ handler' = [handler EXCEPT ![m].pc = "done"]
    /\ UNCHANGED <<now, clockVars, sideVars, deskVars, reacted,
                   cancelling, posts, mentioned, stopped, trace>>

\* on_raw_reaction_add for announcement m by user_id; emoji_ok is whether
\* the emoji is :net: and the user is not the bot itself.  An event for a
\* message id that is not in SHIFT_TRACK returns at once.  reacted keeps
\* who reacted while the follow-up had not yet built its attendee list.
on_raw_reaction_add(m, user_id, emoji_ok) ==
    /\ handler[m].pc # "idle"
    /\ SHIFT_TRACK' =
           IF SHIFT_TRACK[m].tracked /\ emoji_ok
           THEN [SHIFT_TRACK EXCEPT ![m].reactors = @ \cup {user_id}]
           ELSE SHIFT_TRACK
    /\ reacted' =
           IF emoji_ok /\ task[m] \in {"none", "created", "sleeping"}
           THEN [reacted EXCEPT ![m] = @ \cup {user_id}]
           ELSE reacted
    /\ UNCHANGED <<now, clockVars, sideVars, deskVars,
                   task, handler, cancelling, posts,
                   mentioned, stopped, trace>>

\* A plausible slip: the sleep is entered whatever the sign of delta.
FollowupStartAlwaysSleeps(m, channel_ok) ==
    /\ task[m] = "created"
    /\ LET info == SHIFT_TRACK[m]
       IN  IF ~info.tracked \/ info.canceled \/ ~channel_ok
           THEN /\ task' = [task EXCEPT ![m] = "done"]
                /\ trace' = [trace EXCEPT ![m].checked_at = now,
                                          ![m].entered = "return"]
           ELSE /\ task' = [task EXCEPT ![m] = "sleeping"]
                /\ trace' = [trace EXCEPT ![m].checked_at = now,
                                          ![m].entered = "sleeping"]
    /\ UNCHANGED <<now, clockVars, sideVars, deskVars, reacted,
                   SHIFT_TRACK, handler, cancelling, posts,
                   mentioned, stopped>>

\* schedule_run_followup, from its first step to its first suspension: the
\* guards (the one place where info.get("canceled") is tested), then either
\* the sleep or (time already passed) the build of the attendee list and
\* the fetch of the original message.
followup_start(m, channel_ok) ==
    /\ task[m] = "created"
    /\ LET info == SHIFT_TRACK[m]
       IN  IF ~info.tracked \/ info.canceled \/ ~channel_ok
           THEN /\ task' = [task EXCEPT ![m] = "done"]
                /\ trace' = [trace EXCEPT ![m].checked_at = now,
                                          ![m].entered = "return"]
                /\ UNCHANGED mentioned
           ELSE IF info.when - now > 0
           THEN /\ task' = [task EXCEPT ![m] = "sleeping"]
                /\ trace' = [trace EXCEPT ![m].checked_at = now,
                                          ![m].entered = "sleeping"]
                /\ UNCHANGED mentioned
           ELSE /\ task' = [task EXCEPT ![m] = "fetching"]
                /\ trace' = [trace EXCEPT ![m].checked_at = now,
                                          ![m].entered = "fetching"]
                /\ mentioned' = [mentioned EXCEPT ![m] = info.reactors]
    /\ UNCHANGED <<now, clockVars, sideVars, deskVars, reacted,
                   SHIFT_TRACK, handler, cancelling, posts,
                   stopped>>

\* asyncio.sleep(delta) returns once the target instant is reached; the
\* coroutine builds the attendee list (reading info["reactors"] as it is
\* now) and starts fetching the message.  info.get("canceled") is not
\* tested again.
followup_wake(m) ==
    /\ task[m] = "sleeping"
    /\ now >= SHIFT_TRACK[m].when
    /\ task' = [task EXCEPT ![m] = "fetching"]
    /\ mentioned' = [mentioned EXCEPT ![m] = SHIFT_TRACK[m].reactors]
    /\ UNCHANGED <<now, clockVars, sideVars, deskVars, reacted,
                   SHIFT_TRACK, handler, cancelling, posts,
                   stopped, trace>>

\* A plausible slip: the except branch only logs, without the fallback send.
FollowupFetchGivesUp(m, ok) ==
    /\ task[m] = "fetching"
    /\ task' = [task EXCEPT ![m] = IF ok THEN "replying" ELSE "done"]
    /\ UNCHANGED <<now, clockVars, sideVars, deskVars, reacted,
                   SHIFT_TRACK, handler, cancelling, posts,
                   mentioned, stopped, trace>>

\* await channel.fetch_message(message_id): found, or discord.HTTPException.
followup_fetch(m, ok) ==
    /\ task[m] = "fetching"
    /\ task' = [task EXCEPT ![m] = IF ok THEN "replying" ELSE "sending"]
    /\ UNCHANGED <<now, clockVars, sideVars, deskVars, reacted,
                   SHIFT_TRACK, handler, cancelling, posts,
                   mentioned, stopped, trace>>

\* A plausible slip: the fallback send is not confined to the except
\* branch, so it also follows a reply that was posted.
FollowupReplyFallsThrough(m, ok) ==
    /\ task[m] = "replying"
    /\ task' = [task EXCEPT ![m] = "sending"]
    /\ posts' = [posts EXCEPT ![m] = IF ok THEN @ + 1 ELSE @]
    /\ UNCHANGED <<now, clockVars, sideVars, deskVars, reacted,
                   SHIFT_TRACK, handler, cancelling,
                   mentioned, stopped, trace>>

\* await orig_msg.reply(...): posted, or discord.HTTPException.
followup_reply(m, ok) ==
    /\ task[m] = "replying"
    /\ task' = [task EXCEPT ![m] = IF ok THEN "done" ELSE "sending"]
    /\ posts' = [posts EXCEPT ![m] = IF ok THEN @ + 1 ELSE @]
    /\ UNCHANGED <<now, clockVars, sideVars, deskVars, reacted,
                   SHIFT_TRACK, handler, cancelling,
                   mentioned, stopped, trace>>

\* The fallback await channel.send(...) of the except branch: posted, or an
\* exception that nothing in the task catches.
followup_send(m, ok) ==
    /\ task[m] = "sending"
    /\ task' = [task EXCEPT ![m] = IF ok THEN "done" ELSE "failed"]
    /\ posts' = [posts EXCEPT ![m] = IF ok THEN @ + 1 ELSE @]
    /\ UNCHANGED <<now, clockVars, sideVars, deskVars, reacted,
                   SHIFT_TRACK, handler, cancelling,
                   mentioned, stopped, trace>>

\* A plausible slip: a task that is not running is left alone by the cancel
\* (it is only stopped at a request in flight).
CancelledSparesWaiting(state) ==
    IF state \in {"fetching", "replying", "sending"} THEN "cancelled" ELSE state

\* A plausible slip: the sleep is not wrapped in the try, so CancelledError
\* propagates out of a sleeping task as it does at any other await.
CancelledRaisesInSleep(state) ==
    IF state \in Finished THEN state ELSE "cancelled"

\* What task.cancel() followed by await task makes of a task: one not yet
\* started never runs; CancelledError inside the sleep is caught and the
\* coroutine returns; at a later await it propagates.
Cancelled(state) ==
    IF state \in Finished THEN state
    ELSE IF state = "sleeping" THEN "done"
    ELSE "cancelled"

\* A plausible slip: the cancel reaches the task of every tracked shift,
\* not only the one looked up under the target id.
CancelShiftCancelsAll(m, delivered) ==
    /\ cancelling[m] = "idle"
    /\ SHIFT_TRACK[m].tracked
    /\ delivered => task[m] \in {"replying", "sending"}
    /\ task' = [k \in AllMsgs |->
                   IF SHIFT_TRACK[k].tracked THEN Cancelled(task[k]) ELSE task[k]]
    /\ posts' = [posts EXCEPT ![m] = IF delivered THEN @ + 1 ELSE @]
    /\ cancelling' = [cancelling EXCEPT ![m] = "notifying"]
    /\ trace' = [trace EXCEPT ![m].cancel = IF @ = "no" THEN task[m] ELSE @]
    /\ UNCHANGED <<now, clockVars, sideVars, deskVars, reacted,
                   SHIFT_TRACK, handler, mentioned, stopped>>

\* /cancelshift for m, up to the end of await task.  delivered is whether
\* a request already in flight when the task is cancelled still reaches
\* Discord.
cancelshift_start(m, delivered) ==
    /\ cancelling[m] = "idle"
    /\ SHIFT_TRACK[m].tracked
    /\ delivered => task[m] \in {"replying", "sending"}
    /\ task' = [task EXCEPT ![m] = Cancelled(@)]
    /\ posts' = [posts EXCEPT ![m] = IF delivered THEN @ + 1 ELSE @]
    /\ cancelling' = [cancelling EXCEPT ![m] = "notifying"]
    /\ trace' = [trace EXCEPT ![m].cancel = IF @ = "no" THEN task[m] ELSE @]
    /\ UNCHANGED <<now, clockVars, sideVars, deskVars, reacted,
                   SHIFT_TRACK, handler, mentioned, stopped>>

\* /cancelshift for m, the rest: the channel check, the "Shift Canceled"
\* notice (sent is whether the reply or its fallback got through), and only
\* then info["canceled"] = True.
cancelshift_finish(m, channel_ok, sent) ==
    /\ cancelling[m] = "notifying"
    /\ ~channel_ok => ~sent
    /\ SHIFT_TRACK' =
           IF channel_ok /\ sent
           THEN [SHIFT_TRACK EXCEPT ![m].canceled = TRUE]
           ELSE SHIFT_TRACK
    /\ cancelling' = [cancelling EXCEPT ![m] = "idle"]
    /\ UNCHANGED <<now, clockVars, sideVars, deskVars, reacted,
                   task, handler, posts, mentioned, stopped, trace>>

\* Is the follow-up of m still waiting for its target instant?
Waiting(m) == task[m] \in {"created", "sleeping"} /\ now < SHIFT_TRACK[m].when

\* A plausible variant: /shiftstop stops the follow-up as /cancelshift does.
ShiftStopCancels(m, channel_ok) ==
    /\ SHIFT_TRACK[m].tracked
    /\ task' = [task EXCEPT ![m] = IF channel_ok THEN Cancelled(@) ELSE @]
    /\ stopped' = [stopped EXCEPT ![m] =
           IF ~channel_ok \/ @ = "waiting" THEN @
           ELSE IF Waiting(m) THEN "waiting" ELSE "late"]
    /\ UNCHANGED <<now, clockVars, sideVars, deskVars, reacted,
                   SHIFT_TRACK, handler, cancelling, posts,
                   mentioned, trace>>

\* /shiftstop for m: the "Shift Over" announcement.  The tracker entry and
\* the follow-up task are not touched; stopped remembers whether the
\* follow-up was still waiting when the shift was announced over.
shiftstop_cmd(m, channel_ok) ==
    /\ SHIFT_TRACK[m].tracked
    /\ stopped' = [stopped EXCEPT ![m] =
           IF ~channel_ok \/ @ = "waiting" THEN @
           ELSE IF Waiting(m) THEN "waiting" ELSE "late"]
    /\ UNCHANGED <<now, clockVars, sideVars, deskVars, reacted,
                   SHIFT_TRACK, task, handler, cancelling,
                   posts, mentioned, trace>>

\* ------------------------------------------------------ presence registry
\* presence_state as the clock imports it (is_in_game) is not part of the
\* sources at hand; the registry follows its description: one entry per
\* user, created by the first event for the user and overwritten by every
\* later one, absence being the answer for a user without entry.

NoEntry == [known |-> FALSE, present |-> FALSE]

PresenceInit ==
    /\ presence = [u \in Users |-> NoEntry]
    /\ marks = <<>>

\* is_in_game(user_id): False for unknown ids.
is_in_game(user_id) == presence[user_id].known /\ presence[user_id].present

\* A plausible slip: the entry is created with setdefault, so a user once
\* marked absent stays absent.
MarkPresentSetDefault(user_id) ==
    /\ Len(marks) < MaxMarks
    /\ presence' = IF presence[user_id].known THEN presence
                   ELSE [presence EXCEPT ![user_id] =
                            [known |-> TRUE, present |-> TRUE]]
    /\ marks' = Append(marks, [call |-> "mark_present", user_id |-> user_id])
    /\ UNCHANGED <<now, clockVars, trackVars, _session, lookup, deskVars>>

\* mark_present(user_id): sets or creates the entry with present = true.
mark_present(user_id) ==
    /\ Len(marks) < MaxMarks
    /\ presence' = [presence EXCEPT ![user_id] =
                       [known |-> TRUE, present |-> TRUE]]
    /\ marks' = Append(marks, [call |-> "mark_present", user_id |-> user_id])
    /\ UNCHANGED <<now, clockVars, trackVars, _session, lookup, deskVars>>

\* mark_absent(user_id): sets or creates the entry with present = false.
mark_absent(user_id) ==
    /\ Len(marks) < MaxMarks
    /\ presence' = [presence EXCEPT ![user_id] =
                       [known |-> TRUE, present |-> FALSE]]
    /\ marks' = Append(marks, [call |-> "mark_absent", user_id |-> user_id])
    /\ UNCHANGED <<now, clockVars, trackVars, _session, lookup, deskVars>>

\* ---------------------------------------------------------- Bloxlink lookup

\* presence_state imports os, logging and aiohttp: the name json, which the
\* lookup uses to decode the body, is not defined in the module.
json_imported == FALSE

\* The texts an id can be given as: the decimal form of an id, or a text
\* that is no number.
IdTexts ==
    {[digits |-> TRUE, value |-> n] : n \in 1..NumIds}
        \cup {[digits |-> FALSE, value |-> 0]}

\* Sequences over S of length at most n.
SeqUpTo(S, n) == UNION {[1..k -> S] : k \in 0..n}

\* The values a field of the answer can hold: absent (None), a string, a
\* list of strings, or something else (a number, an object).
NoValue == [type |-> "none", str |-> [digits |-> FALSE, value |-> 0],
            items |-> <<>>]
FieldValues ==
    {NoValue, [NoValue EXCEPT !.type = "other"]}
        \cup {[NoValue EXCEPT !.type = "str", !.str = t] : t \in IdTexts}
        \cup {[NoValue EXCEPT !.type = "list", !.items = l] :
                  l \in SeqUpTo(IdTexts, MaxIds)}

\* The bodies Bloxlink can answer with: text that is no JSON, a JSON value
\* that is no object, or an object with the id fields (discordIDs stands
\* for itself and discord_ids, discordId for itself and discord_id).
NoBody == [kind |-> "undecodable", discordIDs |-> NoValue, discordId |-> NoValue]
Bodies ==
    {NoBody, [NoBody EXCEPT !.kind = "list"]}
        \cup {[kind |-> "dict", discordIDs |-> a, discordId |-> b] :
                  a \in FieldValues, b \in FieldValues}

\* What session.get can come to: an exception (network error, timeout), or
\* a response with a status and a body.  The body matters for 200 only.
Responses ==
    {[event |-> "exception", status |-> 0, body |-> NoBody]}
        \cup {[event |-> "response", status |-> st, body |-> NoBody] :
                  st \in {404, 500}}
        \cup {[event |-> "response", status |-> 200, body |-> b] : b \in Bodies}

\* json.loads(text): the decoded value, or an exception (NameError while
\* json is not imported, ValueError for text that is no JSON).
json_loads(body) ==
    IF ~json_imported \/ body.kind = "undecodable"
    THEN [raised |-> TRUE, data |-> NoBody]
    ELSE [raised |-> FALSE, data |-> body]

\* Python truth of a field value, as the `or` chain of data.get tests it.
Truthy(v) == v.type \in {"str", "other"} \/ (v.type = "list" /\ v.items # <<>>)

\* The ints of the texts that parse, in order; int(s) raising ValueError
\* skips the text.
RECURSIVE ParseIds(_)
ParseIds(ids) ==
    IF ids = <<>> THEN <<>>
    ELSE (IF Head(ids).digits THEN <<Head(ids).value>> ELSE <<>>)
             \o ParseIds(Tail(ids))

\* Lines 89-112: the ids found in the decoded data.
ExtractIds(data) ==
    LET raw_ids == IF Truthy(data.discordIDs) THEN data.discordIDs
                   ELSE data.discordId
        ids == IF data.kind # "dict" THEN <<>>
               ELSE IF raw_ids.type = "str" THEN <<raw_ids.str>>
               ELSE IF raw_ids.type = "list" THEN raw_ids.items
               ELSE <<>>
    IN  ParseIds(ids)

\* The body of the try of lines 55-112: what it returns, or that it raised.
TryLookup(r) ==
    IF r.event = "exception" THEN [raised |-> TRUE, out |-> <<>>]
    ELSE IF r.status = 404 THEN [raised |-> FALSE, out |-> <<>>]
    ELSE IF r.status # 200 THEN [raised |-> FALSE, out |-> <<>>]
    ELSE IF json_loads(r.body).raised THEN [raised |-> FALSE, out |-> <<>>]
    ELSE [raised |-> FALSE, out |-> ExtractIds(json_loads(r.body).data)]

\* A plausible slip: the request is made outside the try, so its exception
\* leaves the function.
LookupUnguarded(configured, r) ==
    IF ~configured THEN [raised |-> FALSE, out |-> <<>>] ELSE TryLookup(r)

\* lookup_discord_ids_via_bloxlink(roblox_user_id); configured is whether
\* BLOXLINK_API_KEY and BLOXLINK_GUILD_ID are set, r what the request comes
\* to.  The result is the returned list, or that the call raised.
lookup_discord_ids_via_bloxlink(configured, r) ==
    IF ~configured THEN [raised |-> FALSE, out |-> <<>>]
    ELSE IF TryLookup(r).raised THEN [raised |-> FALSE, out |-> <<>>]
    ELSE TryLookup(r)

NoLookup == [called |-> FALSE, configured |-> FALSE,
             response |-> [event |-> "exception", status |-> 0, body |-> NoBody],
             raised |-> FALSE, out |-> <<>>]

BloxInit ==
    /\ _session = "None"
    /\ lookup = NoLookup

\* One call of the lookup by the webhook.  Without configuration no request
\* is made (and no session opened): r is then of no account.  A call reads
\* nothing that an earlier call wrote but the session, which it reopens
\* when needed, so one call is followed.
bloxlink_lookup(configured, r) ==
    LET res == lookup_discord_ids_via_bloxlink(configured, r)
    IN  /\ ~lookup.called
        /\ ~configured => r = NoLookup.response
        /\ _session' = IF configured THEN "open" ELSE _session
        /\ lookup' = [called |-> TRUE, configured |-> configured,
                      response |-> r, raised |-> res.raised, out |-> res.out]
        /\ UNCHANGED <<now, clockVars, trackVars, presence, marks, deskVars>>

\* ------------------------------------------- clock periods and adjustments

\* What is remembered of the most recent /clockadjust: whom it was for, the
\* hours given, how it ended and the new total it reported.
NoAdjust == [member |-> 0, hours |-> 0, outcome |-> "none", new_total |-> 0]

PeriodInit ==
    /\ reset_at = NULL
    /\ clock_adjustments = <<>>
    /\ adjusted = NoAdjust

\* The hours a /clockadjust may be given, counted in steps of 1/7200 hour
\* (half a second), one of them negative.
Hours == (0 - 1)..MaxHours

\* int(hours * 3600) for hours >= 0 given in steps of 1/7200 hour.
int_seconds(hours) == (hours * 3600) \div 7200

RECURSIVE SumSeq(_)
SumSeq(q) == IF q = <<>> THEN 0 ELSE Head(q) + SumSeq(Tail(q))

\* _get_reset_time(guild_id): the stored reset time, or the epoch when the
\* guild has no clock_periods row.
_get_reset_time(reset) == IF reset = NULL THEN EPOCH ELSE reset

\* _get_adjustment_seconds(guild_id, user_id, since): SUM(seconds) over the
\* user's adjustments with created_at >= since, 0 when there is none.
_get_adjustment_seconds(adj, guild_id, user_id, since) ==
    LET rows == SelectSeq(adj, LAMBDA a : /\ a.guild_id = guild_id
                                          /\ a.user_id = user_id
                                          /\ a.created_at >= since)
    IN  SumSeq([i \in 1..Len(rows) |-> rows[i].seconds])

\* _add_adjustment(guild_id, user_id, seconds, when): one row more.
_add_adjustment(adj, guild_id, user_id, seconds, when) ==
    Append(adj, [guild_id |-> guild_id, user_id |-> user_id,
                 seconds |-> seconds, created_at |-> when])

\* The seconds one shifts row counts for at time t: to its end_time, or to
\* t while it is open.
RowSeconds(row, t) ==
    (IF row.end_time = NULL THEN t ELSE row.end_time) - row.start_time

\* _get_period_total_seconds(guild_id, user_id) at time t: the rows of the
\* user with start_time >= the period start, each for its whole length,
\* plus the adjustments made since the period start.
_get_period_total_seconds(s, adj, reset, t, guild_id, user_id) ==
    LET period_start == _get_reset_time(reset)
        rows == SelectSeq(s, LAMBDA r : /\ r.user_id = user_id
                                        /\ r.guild_id = guild_id
                                        /\ r.start_time >= period_start)
    IN  SumSeq([i \in 1..Len(rows) |-> RowSeconds(rows[i], t)])
        + _get_adjustment_seconds(adj, guild_id, user_id, period_start)

\* A plausible slip: the target itself is stored in place of the difference
\* to the current total.
ClockAdjustAddsTarget(member, lead, hours) ==
    /\ Len(clock_adjustments) < MaxAdjust
    /\ lead /\ hours >= 0
    /\ LET after == _add_adjustment(clock_adjustments, GUILD_ID, member,
                                    int_seconds(hours), now)
       IN  /\ clock_adjustments' = after
           /\ adjusted' = [member |-> member, hours |-> hours,
                           outcome |-> "ok",
                           new_total |-> _get_period_total_seconds(
                               shifts, after, reset_at, now, GUILD_ID, member)]
    /\ UNCHANGED <<now, clockVars, trackVars, sideVars, loaVars, modVars,
                   reset_at>>

\* /clockadjust member hours by an actor who is lead-plus or not: refused
\* without the role or for negative hours; otherwise the difference between
\* the target and the member's current period total is stored as an
\* adjustment made now, and the new total is read back for the reply.
clockadjust(member, lead, hours) ==
    /\ Len(clock_adjustments) < MaxAdjust
    /\ IF ~lead \/ hours < 0
       THEN /\ adjusted' = [NoAdjust EXCEPT
                               !.member = member, !.hours = hours,
                               !.outcome = IF ~lead THEN "denied"
                                           ELSE "negative"]
            /\ UNCHANGED clock_adjustments
       ELSE LET current_secs == _get_period_total_seconds(
                    shifts, clock_adjustments, reset_at, now, GUILD_ID, member)
                target_secs == int_seconds(hours)
                delta == target_secs - current_secs
                after == _add_adjustment(clock_adjustments, GUILD_ID, member,
                                         delta, now)
            IN  /\ clock_adjustments' = after
                /\ adjusted' = [member |-> member, hours |-> hours,
                                outcome |-> "ok",
                                new_total |-> _get_period_total_seconds(
                                    shifts, after, reset_at, now, GUILD_ID,
                                    member)]
    /\ UNCHANGED <<now, clockVars, trackVars, sideVars, loaVars, modVars,
                   reset_at>>

\* /clockreset by an actor who is lead-plus or not: _set_reset_time(now).
clockreset(lead) ==
    /\ reset_at' = IF lead THEN now ELSE reset_at
    /\ UNCHANGED <<now, clockVars, trackVars, sideVars, loaVars, modVars,
                   clock_adjustments, adjusted>>

\* The wall clock advances, one step further than Tick lets it.
LateTick ==
    /\ now < MaxTime + 1
    /\ now' = now + 1
    /\ UNCHANGED <<clockVars, trackVars, sideVars, deskVars>>

\* ------------------------------------------------- leave of absence (LOA)

LoaIds == 1..MaxLoas
Presses == 1..NumPresses
Decisions == {"approved", "denied"}

NoRow == [id |-> 0, user_id |-> 0, guild_id |-> 0, status |-> "none"]
NoPress == [pc |-> "idle", loa_id |-> 0, decision |-> "none", before |-> "none",
            ok |-> FALSE, msg |-> "none"]
\* The most recent call of _decide_loa or _end_loa_early: the status it
\* found, its result, and a mark that turns over at every call.
NoLoaOp == [op |-> "none", loa_id |-> 0, before |-> "none", ok |-> FALSE,
            msg |-> "none", turn |-> FALSE]

LoaInit ==
    /\ loas = <<>>
    /\ loa_press = [p \in Presses |-> NoPress]
    /\ loa_views = {}
    /\ loa_panel = {}
    /\ loa_last = NoLoaOp

\* _get_loa(loa_id): the loas row with that id, or nothing.  The source
\* gives the declaration with its body elided; this is the lookup that
\* _decide_loa and _end_loa_early rely on.
_get_loa(table, loa_id) ==
    IF loa_id \in 1..Len(table) THEN table[loa_id] ELSE NoRow

\* A plausible slip: the status test is left out.
DecideLoaUnchecked(table, loa_id, decision) ==
    LET row == _get_loa(table, loa_id)
    IN  IF row = NoRow
        THEN [ok |-> FALSE, msg |-> "no longer exists", loas |-> table]
        ELSE [ok |-> TRUE, msg |-> decision,
              loas |-> [table EXCEPT ![loa_id].status = decision]]

\* A plausible slip: only a repeat of the same decision is refused.
DecideLoaRefusesRepeat(table, loa_id, decision) ==
    LET row == _get_loa(table, loa_id)
    IN  IF row = NoRow
        THEN [ok |-> FALSE, msg |-> "no longer exists", loas |-> table]
        ELSE IF row.status = decision
        THEN [ok |-> FALSE, msg |-> "already", loas |-> table]
        ELSE [ok |-> TRUE, msg |-> decision,
              loas |-> [table EXCEPT ![loa_id].status = decision]]

\* _decide_loa(loa_id, decision), up to the commit of its UPDATE (nothing
\* suspends before it): the result pair and the table afterwards.
_decide_loa(table, loa_id, decision) ==
    LET row == _get_loa(table, loa_id)
    IN  IF row = NoRow
        THEN [ok |-> FALSE, msg |-> "no longer exists", loas |-> table]
        ELSE IF row.status # "pending"
        THEN [ok |-> FALSE, msg |-> "already", loas |-> table]
        ELSE [ok |-> TRUE, msg |-> decision,
              loas |-> [table EXCEPT ![loa_id].status = decision]]

\* A plausible slip: only an LOA that was never approved is refused.
EndLoaEarlyUnlessUndecided(table, loa_id) ==
    LET row == _get_loa(table, loa_id)
    IN  IF row = NoRow
        THEN [ok |-> FALSE, msg |-> "no longer exists", loas |-> table]
        ELSE IF row.status \in {"pending", "denied"}
        THEN [ok |-> FALSE, msg |-> "not active", loas |-> table]
        ELSE [ok |-> TRUE, msg |-> "ended",
              loas |-> [table EXCEPT ![loa_id].status = "ended"]]

\* _end_loa_early(loa_id), up to the commit of its UPDATE.
_end_loa_early(table, loa_id) ==
    LET row == _get_loa(table, loa_id)
    IN  IF row = NoRow
        THEN [ok |-> FALSE, msg |-> "no longer exists", loas |-> table]
        ELSE IF row.status \notin {"approved"}
        THEN [ok |-> FALSE, msg |-> "not active", loas |-> table]
        ELSE [ok |-> TRUE, msg |-> "ended",
              loas |-> [table EXCEPT ![loa_id].status = "ended"]]

\* /loarequest days reason: refused for days <= 0, otherwise a new row with
\* status 'pending'.
loarequest(user_id, days) ==
    /\ Len(loas) < MaxLoas
    /\ loas' = IF days <= 0 THEN loas
               ELSE Append(loas, [id |-> Len(loas) + 1, user_id |-> user_id,
                                  guild_id |-> GUILD_ID, status |-> "pending"])
    /\ UNCHANGED <<now, clockVars, trackVars, sideVars, periodVars, modVars,
                   loa_press, loa_views, loa_panel, loa_last>>

\* /loafeed by a member who is senior supervisor or not, with the log
\* channel found or not: one message with Approve and Deny buttons for each
\* LOA that is pending now.  The buttons never time out, and a later
\* /loafeed posts a pending LOA again.
loafeed(senior, channel_ok) ==
    /\ loa_views' =
           IF senior /\ channel_ok
           THEN loa_views \cup {i \in 1..Len(loas) : loas[i].status = "pending"}
           ELSE loa_views
    /\ UNCHANGED <<now, clockVars, trackVars, sideVars, periodVars, modVars,
                   loas, loa_press, loa_panel, loa_last>>

\* LOAApprovalView._process for press p of the Approve or Deny button of a
\* message about loa_id, up to its first suspension: the guild and role
\* tests, then _decide_loa through its UPDATE.  A refused press only has
\* its reply left to send; a successful one goes on to the DM, the log and
\* the edits.
approval_press(p, loa_id, decision, guild_ok, allowed) ==
    /\ loa_press[p].pc = "idle"
    /\ loa_id \in loa_views
    /\ LET before == _get_loa(loas, loa_id).status
           res == _decide_loa(loas, loa_id, decision)
       IN  IF ~guild_ok \/ ~allowed
           THEN /\ loa_press' = [loa_press EXCEPT ![p] =
                       [pc |-> "done", loa_id |-> loa_id,
                        decision |-> decision, before |-> before, ok |-> FALSE,
                        msg |-> IF ~guild_ok THEN "wrong guild"
                                ELSE "not allowed"]]
                /\ UNCHANGED <<loas, loa_last>>
           ELSE /\ loas' = res.loas
                /\ loa_press' = [loa_press EXCEPT ![p] =
                       [pc |-> IF res.ok THEN "notifying" ELSE "done",
                        loa_id |-> loa_id, decision |-> decision,
                        before |-> before, ok |-> res.ok, msg |-> res.msg]]
                /\ loa_last' = [op |-> "decide", loa_id |-> loa_id,
                                before |-> before, ok |-> res.ok,
                                msg |-> res.msg, turn |-> ~loa_last.turn]
    /\ UNCHANGED <<now, clockVars, trackVars, sideVars, periodVars, modVars,
                   loa_views, loa_panel>>

\* The rest of a successful press: the DM, the log entry, the edit of the
\* log message, the reply and the disabling of the buttons of that one
\* message.  None of it touches the table.
approval_finish(p) ==
    /\ loa_press[p].pc = "notifying"
    /\ loa_press' = [loa_press EXCEPT ![p].pc = "done"]
    /\ UNCHANGED <<now, clockVars, trackVars, sideVars, periodVars, modVars,
                   loas, loa_views, loa_panel, loa_last>>

\* /loaadmin by a member who is senior supervisor or not: a panel offering
\* the LOAs that are approved now.  A panel opened earlier stays usable
\* with the options it was built with.
loaadmin(senior) ==
    /\ loa_panel' =
           IF senior
           THEN loa_panel \cup {i \in 1..Len(loas) : loas[i].status = "approved"}
           ELSE loa_panel
    /\ UNCHANGED <<now, clockVars, trackVars, sideVars, periodVars, modVars,
                   loas, loa_press, loa_views, loa_last>>

\* LOAAdminView.on_select: the LOA picked on the panel is ended early.
loa_on_select(loa_id, guild_ok) ==
    /\ loa_id \in loa_panel
    /\ LET before == _get_loa(loas, loa_id).status
           res == _end_loa_early(loas, loa_id)
       IN  IF ~guild_ok
           THEN UNCHANGED <<loas, loa_last>>
           ELSE /\ loas' = res.loas
                /\ loa_last' = [op |-> "end", loa_id |-> loa_id,
                                before |-> before, ok |-> res.ok,
                                msg |-> res.msg, turn |-> ~loa_last.turn]
    /\ UNCHANGED <<now, clockVars, trackVars, sideVars, periodVars, modVars,
                   loa_press, loa_views, loa_panel>>

\* ------------------------------------------------------ moderation cards

CardIds == 1..MaxCards

NoModPress == [pc |-> "idle", kind |-> "none", card |-> 0]

ModInit ==
    /\ moderations = <<>>
    /\ card = [c \in CardIds |-> [posted |-> FALSE, buttons |-> FALSE,
                                  status |-> "pending", canceled |-> FALSE]]
    /\ mod_press = [p \in Presses |-> NoModPress]

\* The recorded cases of card c.
CasesOf(c) == {i \in 1..Len(moderations) : moderations[i].card = c}

\* /moderate with the Roblox user found: a card with Confirm and Cancel
\* buttons is posted.  Nothing is recorded yet.
moderate(c) ==
    /\ ~card[c].posted
    /\ card' = [card EXCEPT ![c].posted = TRUE, ![c].buttons = TRUE]
    /\ UNCHANGED <<now, clockVars, trackVars, sideVars, periodVars, loaVars,
                   moderations, mod_press>>

\* _record_moderation(data, moderator), up to the commit of its INSERT:
\* one row more, whatever the table already holds.  after_cancel notes
\* whether card c had been canceled by then.
_record_moderation(table, c) ==
    Append(table, [card |-> c, after_cancel |-> card[c].canceled])

\* ModerateConfirmView._do_confirm for press p on card c, up to its first
\* suspension: _check_perms, then _record_moderation through its INSERT.
\* The press can be made while the message shows the buttons.
confirm_press(p, c, permitted) ==
    /\ mod_press[p].pc = "idle"
    /\ card[c].buttons
    /\ IF permitted
       THEN /\ moderations' = _record_moderation(moderations, c)
            /\ mod_press' = [mod_press EXCEPT ![p] =
                   [pc |-> "logging", kind |-> "confirm", card |-> c]]
       ELSE /\ mod_press' = [mod_press EXCEPT ![p] =
                   [pc |-> "done", kind |-> "refused", card |-> c]]
            /\ UNCHANGED moderations
    /\ UNCHANGED <<now, clockVars, trackVars, sideVars, periodVars, loaVars,
                   card>>

\* The rest of a confirm: after the log entry, the card gets its Status
\* field and loses its buttons if message.edit succeeds (a failure is
\* swallowed), and the reply is sent.
confirm_finish(p, edit_ok) ==
    /\ mod_press[p].pc = "logging"
    /\ LET c == mod_press[p].card
       IN  card' = IF edit_ok
                   THEN [card EXCEPT ![c].buttons = FALSE,
                                     ![c].status = "confirmed"]
                   ELSE card
    /\ mod_press' = [mod_press EXCEPT ![p].pc = "done"]
    /\ UNCHANGED <<now, clockVars, trackVars, sideVars, periodVars, loaVars,
                   moderations>>

\* ModerateConfirmView._do_cancel for press p on card c, up to its first
\* suspension (the edit of the message).
cancel_press(p, c, permitted) ==
    /\ mod_press[p].pc = "idle"
    /\ card[c].buttons
    /\ mod_press' = [mod_press EXCEPT ![p] =
           [pc |-> IF permitted THEN "canceling" ELSE "done",
            kind |-> IF permitted THEN "cancel" ELSE "refused", card |-> c]]
    /\ UNCHANGED <<now, clockVars, trackVars, sideVars, periodVars, loaVars,
                   moderations, card>>

\* The rest of a cancel: the card loses its buttons if message.edit
\* succeeds, and "Moderation canceled. No record was saved." is sent.
cancel_finish(p, edit_ok) ==
    /\ mod_press[p].pc = "canceling"
    /\ LET c == mod_press[p].card
       IN  card' = IF edit_ok
                   THEN [card EXCEPT ![c].buttons = FALSE,
                                     ![c].status = "canceled",
                                     ![c].canceled = TRUE]
                   ELSE [card EXCEPT ![c].canceled = TRUE]
    /\ mod_press' = [mod_press EXCEPT ![p].pc = "done"]
    /\ UNCHANGED <<now, clockVars, trackVars, sideVars, periodVars, loaVars,
                   moderations>>

ClockInit ==
    /\ shifts = <<>>
    /\ last = NoOp

\* ------------------------------------------------------- specifications

Init ==
    /\ ClockInit /\ TrackInit /\ PresenceInit /\ BloxInit /\ now = 0
    /\ PeriodInit /\ LoaInit /\ ModInit

Next ==
    \/ \E u \in Users, sup \in BOOLEAN, in_game \in BOOLEAN :
          startclock(u, sup, in_game)
    \/ \E u \in Users, owner \in BOOLEAN, in_game \in BOOLEAN :
          start_button(u, owner, in_game)
    \/ \E u \in Users, sup \in BOOLEAN : endclock(u, sup)
    \/ \E u \in Users, owner \in BOOLEAN : end_button(u, owner)
    \/ \E u \in Users : on_select(u)
    \/ \E u \in Users, g \in BOOLEAN, dm \in DMOutcomes :
          auto_end_for_inactivity(u, g, dm)
    \/ Tick

Spec == Init /\ [][Next]_vars

\* The announcement follow-ups alone.  Reactions (on_raw_reaction_add) only
\* fill the attendee list of an entry and are not among these steps, so the
\* list stays empty here; they are followed in ReactSpec.
TrackNext ==
    \/ \E m \in Msgs, when \in Times : shift_post(m, when)
    \/ \E m \in Msgs : shift_track(m)
    \/ \E m \in Msgs, c \in BOOLEAN : followup_start(m, c)
    \/ \E m \in Msgs : followup_wake(m)
    \/ \E m \in Msgs, ok \in BOOLEAN : followup_fetch(m, ok)
    \/ \E m \in Msgs, ok \in BOOLEAN : followup_reply(m, ok)
    \/ \E m \in Msgs, ok \in BOOLEAN : followup_send(m, ok)
    \/ \E m \in Msgs, d \in BOOLEAN : cancelshift_start(m, d)
    \/ \E m \in Msgs, c \in BOOLEAN, sent \in BOOLEAN :
          cancelshift_finish(m, c, sent)
    \/ \E m \in Msgs, c \in BOOLEAN : shiftstop_cmd(m, c)
    \/ Tick

TrackSpec == Init /\ [][TrackNext]_vars

\* One announcement from /shift on, with the reactions of the members, its
\* follow-up, /cancelshift and /shiftstop.
ReactNext ==
    \/ \E m \in ReactMsgs, when \in Times : shift_post(m, when)
    \/ \E m \in ReactMsgs : shift_track(m)
    \/ \E m \in ReactMsgs, u \in Users, e \in BOOLEAN :
          on_raw_reaction_add(m, u, e)
    \/ \E m \in ReactMsgs, c \in BOOLEAN : followup_start(m, c)
    \/ \E m \in ReactMsgs : followup_wake(m)
    \/ \E m \in ReactMsgs, ok \in BOOLEAN : followup_fetch(m, ok)
    \/ \E m \in ReactMsgs, ok \in BOOLEAN : followup_reply(m, ok)
    \/ \E m \in ReactMsgs, ok \in BOOLEAN : followup_send(m, ok)
    \/ \E m \in ReactMsgs, d \in BOOLEAN : cancelshift_start(m, d)
    \/ \E m \in ReactMsgs, c \in BOOLEAN, sent \in BOOLEAN :
          cancelshift_finish(m, c, sent)
    \/ \E m \in ReactMsgs, c \in BOOLEAN : shiftstop_cmd(m, c)
    \/ Tick

ReactSpec == Init /\ [][ReactNext]_vars

\* The follow-ups while the channel stays available: get_channel finds it
\* and the fallback send succeeds (the announcement itself may be deleted, so
\* fetch_message and reply may still fail).
LiveNext ==
    \/ \E m \in Msgs, when \in Times : shift_post(m, when)
    \/ \E m \in Msgs : shift_track(m)
    \/ \E m \in Msgs : followup_start(m, TRUE)
    \/ \E m \in Msgs : followup_wake(m)
    \/ \E m \in Msgs, ok \in BOOLEAN : followup_fetch(m, ok)
    \/ \E m \in Msgs, ok \in BOOLEAN : followup_reply(m, ok)
    \/ \E m \in Msgs : followup_send(m, TRUE)
    \/ \E m \in Msgs, d \in BOOLEAN : cancelshift_start(m, d)
    \/ \E m \in Msgs, sent \in BOOLEAN : cancelshift_finish(m, TRUE, sent)
    \/ \E m \in Msgs : shiftstop_cmd(m, TRUE)
    \/ Tick

\* The event loop runs every coroutine that is ready: a /shift handler
\* past its await goes on, a created task starts, a request in flight
\* completes, a sleep returns once its time is reached; and time passes.
\* Nothing obliges anybody to issue a command.
LiveFairness ==
    /\ WF_vars(Tick)
    /\ \A m \in Msgs :
           /\ WF_vars(shift_track(m))
           /\ WF_vars(followup_start(m, TRUE))
           /\ WF_vars(followup_wake(m))
           /\ WF_vars(\E ok \in BOOLEAN : followup_fetch(m, ok))
           /\ WF_vars(\E ok \in BOOLEAN : followup_reply(m, ok))
           /\ WF_vars(followup_send(m, TRUE))

LiveSpec == Init /\ [][LiveNext]_vars /\ LiveFairness

\* The presence registry under the events of the game webhook.
PresenceNext ==
    \/ \E u \in Users : mark_present(u)
    \/ \E u \in Users : mark_absent(u)

PresenceSpec == Init /\ [][PresenceNext]_vars

\* The Bloxlink lookup under every answer of the service.
BloxNext == \E configured \in BOOLEAN, r \in Responses :
                bloxlink_lookup(configured, r)

BloxSpec == Init /\ [][BloxNext]_vars

\* Two announcements, their follow-up tasks and /cancelshift on either.
PairNext ==
    \/ \E m \in PairMsgs, when \in Times : shift_post(m, when)
    \/ \E m \in PairMsgs : shift_track(m)
    \/ \E m \in PairMsgs, c \in BOOLEAN : followup_start(m, c)
    \/ \E m \in PairMsgs : followup_wake(m)
    \/ \E m \in PairMsgs, ok \in BOOLEAN : followup_fetch(m, ok)
    \/ \E m \in PairMsgs, ok \in BOOLEAN : followup_reply(m, ok)
    \/ \E m \in PairMsgs, ok \in BOOLEAN : followup_send(m, ok)
    \/ \E m \in PairMsgs, d \in BOOLEAN : cancelshift_start(m, d)
    \/ \E m \in PairMsgs, c \in BOOLEAN, sent \in BOOLEAN :
          cancelshift_finish(m, c, sent)
    \/ Tick

PairSpec == Init /\ [][PairNext]_vars

\* Clock periods: shifts are started and ended, totals adjusted, the period
\* reset, while the clock runs.
PeriodNext ==
    \/ \E u \in Members : startclock(u, TRUE, TRUE)
    \/ \E u \in Members : endclock(u, TRUE)
    \/ \E u \in Members, lead \in BOOLEAN, h \in Hours : clockadjust(u, lead, h)
    \/ \E lead \in BOOLEAN : clockreset(lead)
    \/ LateTick

PeriodSpec == Init /\ [][PeriodNext]_vars

\* LOAs are requested, fed to the log channel, decided by button presses
\* and ended early from the admin panel.
LoaNext ==
    \/ \E u \in Users, days \in {0, 1} : loarequest(u, days)
    \/ \E senior \in BOOLEAN, channel_ok \in BOOLEAN : loafeed(senior, channel_ok)
    \/ \E p \in Presses, i \in LoaIds, d \in Decisions,
          guild_ok \in BOOLEAN, allowed \in BOOLEAN :
          approval_press(p, i, d, guild_ok, allowed)
    \/ \E p \in Presses : approval_finish(p)
    \/ \E senior \in BOOLEAN : loaadmin(senior)
    \/ \E i \in LoaIds, guild_ok \in BOOLEAN : loa_on_select(i, guild_ok)

LoaSpec == Init /\ [][LoaNext]_vars

\* The same without the admin panel: what Approve and Deny presses alone
\* come to.
DecideNext ==
    \/ \E u \in Users, days \in {0, 1} : loarequest(u, days)
    \/ \E senior \in BOOLEAN, channel_ok \in BOOLEAN : loafeed(senior, channel_ok)
    \/ \E p \in Presses, i \in LoaIds, d \in Decisions,
          guild_ok \in BOOLEAN, allowed \in BOOLEAN :
          approval_press(p, i, d, guild_ok, allowed)
    \/ \E p \in Presses : approval_finish(p)

DecideSpec == Init /\ [][DecideNext]_vars

\* Moderation cards are posted and their buttons pressed.
ModNext ==
    \/ \E c \in CardIds : moderate(c)
    \/ \E p \in Presses, c \in CardIds, permitted \in BOOLEAN :
          confirm_press(p, c, permitted)
    \/ \E p \in Presses, edit_ok \in BOOLEAN : confirm_finish(p, edit_ok)
    \/ \E p \in Presses, c \in CardIds, permitted \in BOOLEAN :
          cancel_press(p, c, permitted)
    \/ \E p \in Presses, edit_ok \in BOOLEAN : cancel_finish(p, edit_ok)

ModSpec == Init /\ [][ModNext]_vars

\* ------------------------------------------------------------- properties

StartOps == {"startclock", "start_button"}
EndOps == {"endclock", "end_button", "on_select", "auto_end_for_inactivity"}

\* The handler got as far as calling _start_shift / _end_shift.
CalledStart == last.op \in StartOps /\ last.outcome \in {"Started", "AlreadyActive"}
CalledEnd ==
    /\ last.op \in EndOps
    /\ last.outcome \notin {"NotPermitted", "NotOwner", "GuildNotFound"}

OpenRows(guild_id, user_id) ==
    {i \in 1..Len(shifts) : /\ shifts[i].user_id = user_id
                            /\ shifts[i].guild_id = guild_id
                            /\ shifts[i].end_time = NULL}

ClosedRows(user_id) ==
    {i \in 1..Len(shifts) : /\ shifts[i].user_id = user_id
                            /\ shifts[i].end_time # NULL}

\* C1: in every reachable state, each (guild, user) has at most one shift
\* row with no end_time.
C1_AtMostOneOpenShift ==
    \A u \in Users : Cardinality(OpenRows(GUILD_ID, u)) <= 1

\* A start was attempted for a user who holds an open row and a closed one.
C1_Witness ==
    /\ last.op \in StartOps
    /\ last.had_open
    /\ OpenRows(GUILD_ID, last.user_id) # {}
    /\ ClosedRows(last.user_id) # {}

\* C2: a manually-initiated start (/startclock or the Start button of the
\* /clockmanage panel) creates an open shift only if the user is in the
\* game at that moment.
C2_ManualStartOnlyIfPresent ==
    last.op \in StartOps /\ last.ok => last.in_game

\* C3: a start_shift(u) issued while u already has an open shift, and in
\* particular right after a start of u that succeeded, fails with
\* AlreadyActive: _start_shift returns ok = False.
C3_StartWhileOpenIsAlreadyActive ==
    CalledStart /\ (last.had_open \/ last.follows = "start")
        => ~last.ok /\ last.outcome = "AlreadyActive"

\* Two starts of one user in a row, the second one reaching _start_shift.
C3_Witness ==
    /\ CalledStart
    /\ last.follows = "start"
    /\ last.outcome = "AlreadyActive"

\* C4: a start that fails (AlreadyActive, NotPresent) leaves the table of
\* shift rows exactly as it was.
C4_FailedStartChangesNothing ==
    last.op \in StartOps /\ ~last.ok => ~last.changed

\* A start failed with AlreadyActive and the open row is still there.
C4_Witness ==
    /\ last.op \in StartOps
    /\ last.outcome = "AlreadyActive"
    /\ \E i \in OpenRows(GUILD_ID, last.user_id) : shifts[i].start_time < now

\* C5: end_shift for a user with no open shift returns (False, None) and
\* changes no shift row.
C5_EndWithoutOpenShiftFails ==
    CalledEnd /\ ~last.had_open
        => ~last.ok /\ last.duration = <<>> /\ ~last.changed

\* An end was refused for a user without an open row while the table holds
\* rows (a closed one of this user, an open one of another).
C5_Witness ==
    /\ CalledEnd
    /\ last.outcome = "NoActiveShift"
    /\ ClosedRows(last.user_id) # {}
    /\ \E u \in Users : OpenRows(GUILD_ID, u) # {}

\* C6: a start of u that succeeded followed immediately by an end of u: the
\* end succeeds, every closed row of u ends no earlier than it starts, u has
\* no open shift, and a further start of u would be accepted.
C6_StartThenEndRoundTrip ==
    CalledEnd /\ last.follows = "start"
        => /\ last.ok
           /\ OpenRows(GUILD_ID, last.user_id) = {}
           /\ \A i \in ClosedRows(last.user_id) :
                  shifts[i].end_time >= shifts[i].start_time
           /\ _start_shift(shifts, now, GUILD_ID, last.user_id).ok

\* A start and then an end of the same user, a second after it.
C6_Witness ==
    /\ CalledEnd
    /\ last.follows = "start"
    /\ last.ok
    /\ \E i \in ClosedRows(last.user_id) :
           shifts[i].end_time > shifts[i].start_time

\* C7: auto_end_for_inactivity(u) returns True exactly when u had an open
\* shift, and then the shift is closed; a second call right after one that
\* returned True returns False and changes nothing.
C7_AutoEndTrueIffOpen ==
    last.op = "auto_end_for_inactivity"
        => /\ (last.returned = "True") <=> last.had_open
           /\ last.had_open => OpenRows(GUILD_ID, last.user_id) = {}
           /\ last.follows = "auto_end"
                  => last.returned = "False" /\ ~last.changed

\* C8: auto_end_for_inactivity never raises to its caller: however the
\* direct message fails, the call returns True and the shift stays closed.
C8_AutoEndNeverRaises ==
    last.op = "auto_end_for_inactivity"
        => /\ last.returned # "raise"
           /\ last.outcome \in {"Forbidden", "HTTPException"}
                  => /\ last.returned = "True"
                     /\ OpenRows(GUILD_ID, last.user_id) = {}

\* C9: from every state and for every target, force_end_shift returns the
\* same (ok, duration) as end_shift and leaves the same table.
C9_ForceEndSameAsEnd ==
    \A u \in Users :
        _force_end_shift(shifts, now, GUILD_ID, u)
            = _end_shift(shifts, now, GUILD_ID, u)

\* A force-end through the admin panel succeeded a second or more after the
\* start, while another user's clock is still open.
C9_Witness ==
    /\ last.op = "on_select"
    /\ last.ok
    /\ last.duration # _format_duration(0)
    /\ \E u \in Users : OpenRows(GUILD_ID, u) # {}

\* C11: a follow-up whose instant is already past when the task starts
\* (when <= now) and whose guards pass does not sleep: its first step goes
\* straight to the posting of the follow-up.
C11_PastInstantSkipsSleep ==
    \A m \in Msgs :
        /\ trace[m].entered \in {"sleeping", "fetching"}
        /\ SHIFT_TRACK[m].when <= trace[m].checked_at
        => trace[m].entered = "fetching"

\* A follow-up scheduled for an instant before the start of its task was
\* posted without a sleep.
C11_Witness ==
    \E m \in Msgs :
        /\ SHIFT_TRACK[m].when < trace[m].checked_at
        /\ trace[m].entered = "fetching"
        /\ posts[m] = 1

\* C12: once /cancelshift has cancelled a follow-up task that had not
\* started or was still sleeping, the task is over and the follow-up of
\* that shift is never posted, whatever runs in between and afterwards.
C12_CancelBeforeInstantNeverPosts ==
    \A m \in Msgs :
        trace[m].cancel \in {"created", "sleeping"}
            => posts[m] = 0 /\ task[m] \in Finished

\* A sleeping follow-up was cancelled, the shift marked canceled, and the
\* target instant has passed since.
C12_Witness ==
    \E m \in Msgs :
        /\ trace[m].cancel = "sleeping"
        /\ SHIFT_TRACK[m].canceled
        /\ SHIFT_TRACK[m].when <= now
        /\ trace[m].checked_at < now

\* C13: no announcement ever has two "Shift Happening" posts.
C13_FollowupAtMostOnce ==
    \A m \in AllMsgs : posts[m] <= 1

\* The follow-up was posted, a member reacted, and a /cancelshift issued
\* after the post ran to its end.
C13_Witness ==
    \E m \in AllMsgs :
        /\ posts[m] = 1
        /\ trace[m].cancel = "done"
        /\ cancelling[m] = "idle"
        /\ SHIFT_TRACK[m].reactors # {}

\* The follow-up of m is being posted or has been.
Firing(m) == task[m] \in {"fetching", "replying", "sending"} \/ posts[m] >= 1

\* C14: a follow-up ends fired or canceled, never both: no shift is both
\* marked canceled and has its follow-up posted.
C14_FiredXorCanceled ==
    \A m \in Msgs : ~(posts[m] >= 1 /\ SHIFT_TRACK[m].canceled)

\* C15, as claimed: a follow-up that fires has tested the canceled flag of
\* its shift at fire time (at or after the target instant, not only before
\* the wait), and a shift cancelled during the wait gets no follow-up post.
C15_RereadsAtFireTime ==
    \A m \in Msgs :
        /\ Firing(m) => trace[m].checked_at >= SHIFT_TRACK[m].when
        /\ trace[m].cancel = "sleeping" => posts[m] = 0

\* C15, amended: the task tests the canceled flag once, before the wait (a
\* task that slept fires on a test older than its instant); the flag is
\* never set while the task sleeps, because /cancelshift first cancels the
\* task, which returns from inside the sleep, and a shift cancelled during
\* the wait gets no follow-up post.
C15_CancelDuringWaitStopsTask ==
    \A m \in Msgs :
        /\ Firing(m) /\ trace[m].entered = "sleeping"
               => trace[m].checked_at < SHIFT_TRACK[m].when
        /\ task[m] = "sleeping" => ~SHIFT_TRACK[m].canceled
        /\ trace[m].cancel = "sleeping" => posts[m] = 0 /\ task[m] = "done"

\* A task that slept was cancelled during the wait and returned, the shift
\* was then marked canceled, and the instant passed without a post.
C15_Witness ==
    \E m \in Msgs :
        /\ trace[m].entered = "sleeping"
        /\ trace[m].cancel = "sleeping"
        /\ task[m] = "done"
        /\ cancelling[m] = "idle"
        /\ SHIFT_TRACK[m].canceled
        /\ SHIFT_TRACK[m].when <= now
        /\ posts[m] = 0

\* C16: /cancelshift on one announcement changes the task, the tracker
\* entry and the posts of no other announcement, and no step of one
\* follow-up task changes another shift; so another shift's follow-up
\* stays scheduled and fires at its own instant.
C16_CancelTouchesOnlyItsShift ==
    [][\A a \in PairMsgs :
          cancelling'[a] # cancelling[a] \/ task'[a] # task[a]
              => \A b \in PairMsgs \ {a} :
                     /\ task'[b] = task[b]
                     /\ SHIFT_TRACK'[b] = SHIFT_TRACK[b]
                     /\ posts'[b] = posts[b]
                     /\ cancelling'[b] = cancelling[b]]_vars

\* Two tracked shifts: one cancelled while its follow-up waited and marked
\* canceled, the other one's follow-up posted after its own wait, its
\* instant being no earlier than the cancelled one's.
C16_Witness ==
    \E a \in PairMsgs, b \in PairMsgs :
        /\ a # b
        /\ trace[a].cancel \in {"created", "sleeping"}
        /\ SHIFT_TRACK[a].canceled
        /\ posts[a] = 0
        /\ trace[b].entered = "sleeping"
        /\ trace[b].cancel = "no"
        /\ SHIFT_TRACK[b].when >= SHIFT_TRACK[a].when
        /\ posts[b] = 1

\* C17: a follow-up that cannot deliver its notification (the reply and
\* the fallback send both fail) still ends without an unhandled exception.
C17_DeliveryFailureIsCaught ==
    \A m \in Msgs : task[m] # "failed"

\* C18: every announcement posted by /shift for which no /cancelshift is
\* ever issued eventually gets its "Shift Happening" follow-up, provided
\* the channel stays available.
C18_FollowupEventuallyPosted ==
    \A m \in Msgs :
        (handler[m].pc = "posted") ~> (posts[m] >= 1 \/ trace[m].cancel # "no")

\* A follow-up that had to wait for its instant was posted, no /cancelshift
\* having been issued and the shift having been announced over meanwhile.
C18_Witness ==
    \E m \in Msgs :
        /\ trace[m].entered = "sleeping"
        /\ trace[m].cancel = "no"
        /\ stopped[m] = "waiting"
        /\ task[m] = "done"
        /\ posts[m] = 1

\* The most recent call made for user_id: "mark_present", "mark_absent",
\* or "none" when there was none.
LastMark(user_id) ==
    LET calls == {i \in 1..Len(marks) : marks[i].user_id = user_id}
    IN  IF calls = {} THEN "none"
        ELSE marks[CHOOSE i \in calls : \A j \in calls : j <= i].call

\* C19: after every sequence of mark_present / mark_absent calls and for
\* every user, is_in_game answers true exactly when the most recent call
\* for that user was mark_present (so false when there was none).
C19_PresenceLastWriteWins ==
    \A u \in Users : is_in_game(u) <=> LastMark(u) = "mark_present"

\* One user was marked present, absent and present again, after another
\* user was marked absent without ever having been present.
C19_Witness ==
    \E u \in Users, v \in Users :
        /\ u # v
        /\ \E h \in 1..Len(marks), i \in 1..Len(marks), j \in 1..Len(marks) :
               /\ h < i /\ i < j /\ j < Len(marks)
               /\ marks[h] = [call |-> "mark_absent", user_id |-> v]
               /\ marks[i] = [call |-> "mark_present", user_id |-> u]
               /\ marks[j] = [call |-> "mark_absent", user_id |-> u]
        /\ marks[Len(marks)] = [call |-> "mark_present", user_id |-> u]
        /\ LastMark(v) = "mark_absent"
        /\ is_in_game(u) /\ ~is_in_game(v)

\* The outcomes of a lookup that count as failures: no configuration, a
\* network exception, a status other than 200, a body that does not decode
\* or is no object.
LookupFailed ==
    \/ ~lookup.configured
    \/ lookup.response.event = "exception"
    \/ lookup.response.status # 200
    \/ lookup.response.body.kind # "dict"

\* C20: whatever the Bloxlink call comes to, the lookup does not raise, and
\* it returns the empty list for every failure outcome.
C20_LookupNeverRaises ==
    lookup.called
        => /\ ~lookup.raised
           /\ LookupFailed => lookup.out = <<>>

\* A lookup whose request ended in a network exception returned [].
C20_Witness ==
    /\ lookup.called
    /\ lookup.configured
    /\ lookup.response.event = "exception"
    /\ _session = "open"
    /\ lookup.out = <<>>

\* C10, as claimed: once a shift was announced over while its follow-up was
\* still waiting for its target instant, that follow-up is never posted.
C10_EndCancelsWaitingFollowup ==
    \A m \in Msgs : stopped[m] = "waiting" => posts[m] = 0

\* C10, amended: /shiftstop leaves the follow-up task and the tracker entry
\* of its shift exactly as they were (so a follow-up still waiting for its
\* target instant stays scheduled).
C10_ShiftStopLeavesFollowup ==
    [][\A m \in Msgs :
          stopped'[m] # stopped[m]
              => task'[m] = task[m] /\ SHIFT_TRACK'[m] = SHIFT_TRACK[m]]_vars

\* A shift announced over while its follow-up was waiting, and the
\* follow-up posted afterwards.
C10_Witness ==
    \E m \in Msgs : stopped[m] = "waiting" /\ posts[m] = 1


\* The ids a 200 answer carries: those of the discordIDs list or, without
\* one, of the discordId string, that parse as integers, in order.
LinkedIds(body) ==
    ParseIds(IF body.discordIDs.type = "list" /\ body.discordIDs.items # <<>>
             THEN body.discordIDs.items
             ELSE IF body.discordId.type = "str" THEN <<body.discordId.str>>
             ELSE <<>>)

\* C21: for a 200 answer whose body is an object carrying the linked ids
\* under discordIDs (list) or discordId (string), the lookup returns exactly
\* the ids that parse as integers, in order.
C21_LookupReturnsLinkedIds ==
    /\ lookup.called /\ lookup.configured
    /\ lookup.response.event = "response"
    /\ lookup.response.status = 200
    /\ lookup.response.body.kind = "dict"
    /\ lookup.response.body.discordIDs.type \in {"list", "none"}
    /\ lookup.response.body.discordId.type \in {"str", "none"}
    => lookup.out = LinkedIds(lookup.response.body)

\* ---- clock periods (PeriodSpec)

\* The period total of user_id as the commands read it now.
PeriodTotal(user_id) ==
    _get_period_total_seconds(shifts, clock_adjustments, reset_at, now,
                              GUILD_ID, user_id)

ClockedSince(row, since, t) ==
    LET from == IF row.start_time > since THEN row.start_time ELSE since
        to == IF row.end_time = NULL THEN t ELSE row.end_time
    IN  IF to > from THEN to - from ELSE 0

\* C23: once the period has been reset at R, the clock time in a user's
\* period total is the time the user was clocked in after R, whichever
\* shift it belongs to, and nothing from before R.
C23_ResetCountsTimeAfterReset ==
    reset_at # NULL =>
        \A u \in Users :
            PeriodTotal(u)
              - _get_adjustment_seconds(clock_adjustments, GUILD_ID, u, reset_at)
            = SumSeq([i \in 1..Len(shifts) |->
                         IF shifts[i].user_id = u
                         THEN ClockedSince(shifts[i], reset_at, now) ELSE 0])

\* C28: the period total of every user is never negative, whatever starts,
\* ends, adjustments (to hours >= 0) and resets came before.
C28_PeriodTotalNeverNegative ==
    \A u \in Users : PeriodTotal(u) >= 0


\* ---- closed shifts (Spec)

\* C27: a shift row that has an end_time is never changed again by a start,
\* an end, a forced end or an automatic end (its start_time and end_time
\* stay, and it stays closed), and every closed row has
\* end_time >= start_time.
C27_ClosedShiftsImmutable ==
    [][/\ \A i \in 1..Len(shifts) :
             shifts[i].end_time # NULL =>
                 /\ i <= Len(shifts')
                 /\ shifts'[i] = shifts[i]
       /\ \A i \in 1..Len(shifts') :
             shifts'[i].end_time # NULL =>
                 shifts'[i].end_time >= shifts'[i].start_time]_vars

\* A user's shift was ended after an earlier shift of the same user had
\* been closed at another time.
C27_Witness ==
    /\ last.op \in EndOps /\ last.ok
    /\ \E i, j \in 1..Len(shifts) :
          /\ i < j
          /\ shifts[i].user_id = shifts[j].user_id
          /\ shifts[i].end_time # NULL
          /\ shifts[j].end_time # NULL
          /\ shifts[i].end_time < shifts[j].end_time


\* ---- leave of absence (LoaSpec, DecideSpec)

LoaSteps == {<<"pending", "approved">>, <<"pending", "denied">>,
             <<"approved", "ended">>}

Deciders(i) == {p \in Presses : loa_press[p].loa_id = i /\ loa_press[p].ok}

C29_ReactorsAreMentioned ==
    \A m \in AllMsgs : posts[m] >= 1 => reacted[m] \subseteq mentioned[m]


\* ---- moderation cards (ModSpec)

\* C30: a pending moderation card leads to at most one recorded case, and
\* to none that is recorded after the card was canceled, however the
\* Confirm and Cancel presses of permitted users on it interleave.
C30_AtMostOneCasePerCard ==
    \A c \in CardIds :
        /\ Cardinality(CasesOf(c)) <= 1
        /\ \A i \in CasesOf(c) : ~moderations[i].after_cancel

====
